---- MODULE Spec2Model ----
(***************************************************************************)
(* Model of HybridJoinBatch (src/Hybrid-Join.py): a reader thread that     *)
(* pushes the rows of a CSV feed onto a bounded queue, a join thread that  *)
(* pops them, joins them with the master data and inserts the joined rows  *)
(* into fact_sales in batches, and run(), which sets both up and waits.    *)
(***************************************************************************)
EXTENDS Integers, Sequences, FiniteSets, TLC

(***************************************************************************)
(* Bounds of the model.                                                    *)
(***************************************************************************)
MaxFeed == 3        \* rows of the transactional CSV
MaxBatch == 2       \* largest batch_size given to the constructor
QueueMaxSize == 2   \* maxsize of stream_buffer (10000 in the source)
ChunkSize == 2      \* chunk_size of stream_reader_thread (1000 in the source)
MaxFlushCalls == 2  \* direct calls of flush_batch in FlushSpec

(***************************************************************************)
(* The data the run works on.  A date cell is the sequence of the fields   *)
(* of its text split at '-' (<<2024, 1, 5>> for "2024-01-05"); the text    *)
(* "bad-date" has no numeric fields.  A quantity cell is either an integer *)
(* or a text int() rejects.  Prices are in cents.                          *)
(***************************************************************************)
BadDate == <<>>

IntCell(n) == [isint |-> TRUE, val |-> n]

TextCell == [isint |-> FALSE, val |-> 0]

\* The rows a feed is made of (without their orderID, which is the row's
\* position in the feed).
RowKinds ==
  { [Customer_ID |-> "C1", Product_ID |-> "P1", quantity |-> IntCell(2), date |-> <<2024, 1, 5>>],
    [Customer_ID |-> "C9", Product_ID |-> "P1", quantity |-> IntCell(1), date |-> <<2024, 1, 5>>],
    [Customer_ID |-> "C1", Product_ID |-> "P9", quantity |-> IntCell(1), date |-> <<2024, 1, 5>>],
    [Customer_ID |-> "C1", Product_ID |-> "P1", quantity |-> IntCell(3), date |-> BadDate],
    [Customer_ID |-> "C1", Product_ID |-> "P2", quantity |-> IntCell(1), date |-> <<2024, 1, 6>>],
    [Customer_ID |-> "C1", Product_ID |-> "P1", quantity |-> TextCell, date |-> <<2024, 1, 5>>] }

WithOrder(kinds) ==
  [i \in 1..Len(kinds) |->
     [orderID |-> i, Customer_ID |-> kinds[i].Customer_ID, Product_ID |-> kinds[i].Product_ID,
      quantity |-> kinds[i].quantity, date |-> kinds[i].date]]

Feeds == UNION { { WithOrder(k) : k \in [1..n -> RowKinds] } : n \in 0..MaxFeed }

\* dim_customer, dim_date and product_master_data.csv as the run finds them.
DimCustomer == {"C1", "C2"}

DimDate == {20240105, 20240107}

ProductCsv ==
  [p \in {"P1", "P2"} |->
     IF p = "P1" THEN [product_id |-> "P1", price |-> 250, store_id |-> "S1", supplier_id |-> "U1"]
                 ELSE [product_id |-> "P2", price |-> 400, store_id |-> "S2", supplier_id |-> "U2"]]

\* A row already in fact_sales before the run.
OldFact ==
  [order_id |-> 0, customer_id |-> "C1", product_id |-> "P1", date_id |-> 20240107,
   store_id |-> "S1", supplier_id |-> "U1", quantity |-> 1, unit_price |-> 250, total_amount |-> 250]

VARIABLES
  feed,                 \* the rows of csv_file
  batch_size,           \* self.batch_size
  stream_buffer,        \* self.stream_buffer
  insert_batch,         \* self.insert_batch
  total_stream_tuples,  \* self.total_stream_tuples
  total_joined_tuples,  \* self.total_joined_tuples
  total_loaded_tuples,  \* self.total_loaded_tuples
  total_skipped,        \* self.total_skipped
  stream_complete,      \* self.stream_complete
  running,              \* self.running
  join_ready,           \* self.join_ready
  customer_master,      \* keys of self.customer_master
  product_master,       \* self.product_master
  valid_dates,          \* self.valid_dates
  fact_sales,           \* the committed rows of table fact_sales
  cpc,                  \* where run() is
  rpc,                  \* where stream_reader_thread is
  jpc,                  \* where hybridjoin_thread is
  fpos,                 \* rows of the feed the chunk iterator has consumed
  chunk,                \* rows of the current chunk not yet iterated
  transaction,          \* the reader's local `transaction`
  stream_tuple,         \* the join thread's local `stream_tuple`
  processed,            \* the join thread's local `processed`
  flush_log,            \* the calls of flush_batch so far: batch and outcome
  reader_exit           \* why the reader left its loop

vars ==
  <<feed, batch_size, stream_buffer, insert_batch, total_stream_tuples, total_joined_tuples,
    total_loaded_tuples, total_skipped, stream_complete, running, join_ready, customer_master,
    product_master, valid_dates, fact_sales, cpc, rpc, jpc, fpos, chunk, transaction,
    stream_tuple, processed, flush_log, reader_exit>>

\* The value of a local that holds nothing yet.
NoTuple == [order_id |-> 0]

(***************************************************************************)
(* Pure functions.                                                         *)
(***************************************************************************)
IsLeap(y) == (y % 4 = 0 /\ y % 100 # 0) \/ y % 400 = 0

DaysInMonth(y, m) ==
  IF m = 2 THEN (IF IsLeap(y) THEN 29 ELSE 28)
  ELSE IF m \in {4, 6, 9, 11} THEN 30 ELSE 31

\* datetime.strptime(text, '%Y-%m-%d') succeeds.
StrptimeOk(d) ==
  /\ Len(d) = 3
  /\ d[1] \in 1..9999
  /\ d[2] \in 1..12
  /\ d[3] \in 1..DaysInMonth(d[1], d[2])

\* int(date_obj.strftime('%Y%m%d'))
DateId(d) == d[1] * 10000 + d[2] * 100 + d[3]

\* The dictionary the reader builds from a row; int() has accepted the quantity.
MakeTransaction(row) ==
  [order_id |-> row.orderID, customer_id |-> row.Customer_ID, product_id |-> row.Product_ID,
   quantity |-> row.quantity.val, date |-> row.date]

\* Mutant: the date id is not looked up in valid_dates.
Joins_NoDateMembership(t) ==
  /\ t.customer_id \in customer_master
  /\ t.product_id \in DOMAIN product_master
  /\ StrptimeOk(t.date)

\* The join chain of hybridjoin_thread: TRUE when the tuple joins.
Joins(t) ==
  /\ t.customer_id \in customer_master
  /\ t.product_id \in DOMAIN product_master
  /\ StrptimeOk(t.date)
  /\ DateId(t.date) \in valid_dates

\* The tuple of values appended to insert_batch.
JoinedValues(t) ==
  LET product_data == product_master[t.product_id]
      unit_price == product_data.price
  IN [order_id |-> t.order_id, customer_id |-> t.customer_id, product_id |-> t.product_id,
      date_id |-> DateId(t.date), store_id |-> product_data.store_id,
      supplier_id |-> product_data.supplier_id, quantity |-> t.quantity,
      unit_price |-> unit_price, total_amount |-> t.quantity * unit_price]

(***************************************************************************)
(* The state after HybridJoinBatch(db_config, batch_size) is constructed.  *)
(***************************************************************************)
Init ==
  /\ feed \in Feeds
  /\ batch_size \in 1..MaxBatch
  /\ stream_buffer = <<>>
  /\ insert_batch = <<>>
  /\ total_stream_tuples = 0
  /\ total_joined_tuples = 0
  /\ total_loaded_tuples = 0
  /\ total_skipped = 0
  /\ stream_complete = FALSE
  /\ running = TRUE
  /\ join_ready = FALSE
  /\ customer_master = {}
  /\ product_master = <<>>
  /\ valid_dates = {}
  /\ fact_sales \in {<<>>, <<OldFact>>}
  /\ cpc = "connect"
  /\ rpc = "not_started"
  /\ jpc = "not_started"
  /\ fpos = 0
  /\ chunk = <<>>
  /\ transaction = NoTuple
  /\ stream_tuple = NoTuple
  /\ processed = 0
  /\ flush_log = <<>>
  /\ reader_exit = "none"

(***************************************************************************)
(* flush_batch.  `outcome` says which call on the connection raises, if    *)
(* any; a statement or a commit that raises leaves nothing in fact_sales.  *)
(* rollback() raising is swallowed and changes nothing more.               *)
(***************************************************************************)
FlushOutcomes == {"ok", "cursor_error", "insert_error", "commit_error", "close_error"}

\* The calls made on the connection and its cursor, in order.
DbCalls(outcome) ==
  CASE outcome = "ok" -> <<"cursor", "executemany", "commit", "close">>
    [] outcome = "cursor_error" -> <<"cursor", "rollback">>
    [] outcome = "insert_error" -> <<"cursor", "executemany", "rollback">>
    [] outcome = "commit_error" -> <<"cursor", "executemany", "commit", "rollback">>
    [] outcome = "close_error" -> <<"cursor", "executemany", "commit", "close", "rollback">>

\* commit() has returned.
Committed(outcome) == outcome \in {"ok", "close_error"}

\* Mutant: the except branch does not reset insert_batch.
flush_batch_KeepOnError(outcome) ==
  IF insert_batch = <<>>
  THEN /\ flush_log' = Append(flush_log, [batch |-> <<>>, calls |-> <<>>, ret |-> 0])
       /\ UNCHANGED <<insert_batch, total_loaded_tuples, fact_sales>>
  ELSE /\ fact_sales' = IF Committed(outcome) THEN fact_sales \o insert_batch ELSE fact_sales
       /\ total_loaded_tuples' =
            IF Committed(outcome) THEN total_loaded_tuples + Len(insert_batch)
            ELSE total_loaded_tuples
       /\ insert_batch' = IF Committed(outcome) THEN <<>> ELSE insert_batch
       /\ flush_log' = Append(flush_log,
            [batch |-> insert_batch, calls |-> DbCalls(outcome),
             ret |-> IF outcome = "ok" THEN Len(insert_batch) ELSE 0])

\* Mutant: no early return for an empty batch.
flush_batch_NoEmptyGuard(outcome) ==
  /\ fact_sales' = IF Committed(outcome) THEN fact_sales \o insert_batch ELSE fact_sales
  /\ total_loaded_tuples' =
       IF Committed(outcome) THEN total_loaded_tuples + Len(insert_batch)
       ELSE total_loaded_tuples
  /\ insert_batch' = <<>>
  /\ flush_log' = Append(flush_log,
       [batch |-> insert_batch, calls |-> DbCalls(outcome),
        ret |-> IF outcome = "ok" THEN Len(insert_batch) ELSE 0])

flush_batch(outcome) ==
  IF insert_batch = <<>>
  THEN /\ flush_log' = Append(flush_log, [batch |-> <<>>, calls |-> <<>>, ret |-> 0])
       /\ UNCHANGED <<insert_batch, total_loaded_tuples, fact_sales>>
  ELSE /\ fact_sales' = IF Committed(outcome) THEN fact_sales \o insert_batch ELSE fact_sales
       /\ total_loaded_tuples' =
            IF Committed(outcome) THEN total_loaded_tuples + Len(insert_batch)
            ELSE total_loaded_tuples
       /\ insert_batch' = <<>>
       /\ flush_log' = Append(flush_log,
            [batch |-> insert_batch, calls |-> DbCalls(outcome),
             ret |-> IF outcome = "ok" THEN Len(insert_batch) ELSE 0])

(***************************************************************************)
(* stream_reader_thread                                                    *)
(***************************************************************************)
ReaderVars == <<rpc, fpos, chunk, transaction, reader_exit, total_stream_tuples, stream_complete>>

JoinVars ==
  <<jpc, stream_tuple, processed, insert_batch, total_joined_tuples, total_loaded_tuples,
    total_skipped, fact_sales, flush_log, join_ready>>

SetupVars == <<feed, batch_size, customer_master, product_master, valid_dates, cpc, running>>

\* Mutant: the reader does not wait for join_ready.
ReaderWait_NoWait ==
  /\ rpc = "wait"
  /\ rpc' = "open"
  /\ UNCHANGED <<fpos, chunk, transaction, reader_exit, total_stream_tuples, stream_complete>>
  /\ UNCHANGED <<JoinVars, SetupVars, stream_buffer>>

\* self.join_ready.wait()
ReaderWait ==
  /\ rpc = "wait"
  /\ join_ready
  /\ rpc' = "open"
  /\ UNCHANGED <<fpos, chunk, transaction, reader_exit, total_stream_tuples, stream_complete>>
  /\ UNCHANGED <<JoinVars, SetupVars, stream_buffer>>

\* pd.read_csv(csv_file, chunksize=chunk_size): the file opens, or it raises.
ReaderOpen ==
  /\ rpc = "open"
  /\ \/ rpc' = "next_chunk" /\ UNCHANGED reader_exit
     \/ rpc' = "finally" /\ reader_exit' = "open_error"
  /\ UNCHANGED <<fpos, chunk, transaction, total_stream_tuples, stream_complete>>
  /\ UNCHANGED <<JoinVars, SetupVars, stream_buffer>>

\* The outer for: the iterator is exhausted, raises, or yields the next chunk.
ReaderNextChunk ==
  /\ rpc = "next_chunk"
  /\ IF fpos = Len(feed)
     THEN /\ rpc' = "finally"
          /\ reader_exit' = IF reader_exit = "none" THEN "exhausted" ELSE reader_exit
          /\ UNCHANGED <<fpos, chunk>>
     ELSE \/ /\ rpc' = "finally"
             /\ reader_exit' = "read_error"
             /\ UNCHANGED <<fpos, chunk>>
          \/ LET last == IF fpos + ChunkSize < Len(feed) THEN fpos + ChunkSize ELSE Len(feed)
             IN /\ chunk' = SubSeq(feed, fpos + 1, last)
                /\ fpos' = last
                /\ rpc' = "chunk_check"
                /\ UNCHANGED reader_exit
  /\ UNCHANGED <<transaction, total_stream_tuples, stream_complete>>
  /\ UNCHANGED <<JoinVars, SetupVars, stream_buffer>>

\* if not self.running: break (outer loop)
ReaderChunkCheck ==
  /\ rpc = "chunk_check"
  /\ IF running
     THEN rpc' = "row" /\ UNCHANGED reader_exit
     ELSE rpc' = "finally" /\ reader_exit' = "stopped"
  /\ UNCHANGED <<fpos, chunk, transaction, total_stream_tuples, stream_complete>>
  /\ UNCHANGED <<JoinVars, SetupVars, stream_buffer>>

\* The inner for up to the put: the chunk is done, the stop is seen (break of
\* the inner loop only), int() raises ValueError, or the transaction is built.
ReaderRow ==
  /\ rpc = "row"
  /\ IF chunk = <<>>
     THEN rpc' = "next_chunk" /\ UNCHANGED <<chunk, transaction, reader_exit>>
     ELSE IF ~running
     THEN rpc' = "next_chunk" /\ chunk' = <<>> /\ reader_exit' = "stopped"
          /\ UNCHANGED transaction
     ELSE IF ~Head(chunk).quantity.isint
     THEN rpc' = "finally" /\ reader_exit' = "row_error" /\ chunk' = Tail(chunk)
          /\ UNCHANGED transaction
     ELSE rpc' = "put" /\ transaction' = MakeTransaction(Head(chunk)) /\ chunk' = Tail(chunk)
          /\ UNCHANGED reader_exit
  /\ UNCHANGED <<fpos, total_stream_tuples, stream_complete>>
  /\ UNCHANGED <<JoinVars, SetupVars, stream_buffer>>

\* Mutant: the queue has no maxsize, so put never blocks.
ReaderPut_Unbounded ==
  /\ rpc = "put"
  /\ stream_buffer' = Append(stream_buffer, transaction)
  /\ rpc' = "count"
  /\ UNCHANGED <<fpos, chunk, transaction, reader_exit, total_stream_tuples, stream_complete>>
  /\ UNCHANGED <<JoinVars, SetupVars>>

\* self.stream_buffer.put(transaction): blocks while the queue is full.
ReaderPut ==
  /\ rpc = "put"
  /\ Len(stream_buffer) < QueueMaxSize
  /\ stream_buffer' = Append(stream_buffer, transaction)
  /\ rpc' = "count"
  /\ UNCHANGED <<fpos, chunk, transaction, reader_exit, total_stream_tuples, stream_complete>>
  /\ UNCHANGED <<JoinVars, SetupVars>>

\* self.total_stream_tuples += 1
ReaderCount ==
  /\ rpc = "count"
  /\ total_stream_tuples' = total_stream_tuples + 1
  /\ rpc' = "row"
  /\ UNCHANGED <<fpos, chunk, transaction, reader_exit, stream_complete>>
  /\ UNCHANGED <<JoinVars, SetupVars, stream_buffer>>

\* Mutant: the flag is set after the loop instead of in a finally, so an
\* exception leaves it False.
ReaderFinally_OnlyOnSuccess ==
  /\ rpc = "finally"
  /\ stream_complete' = (reader_exit \in {"exhausted", "stopped"})
  /\ rpc' = "done"
  /\ UNCHANGED <<fpos, chunk, transaction, reader_exit, total_stream_tuples>>
  /\ UNCHANGED <<JoinVars, SetupVars, stream_buffer>>

\* finally: self.stream_complete = True
ReaderFinally ==
  /\ rpc = "finally"
  /\ stream_complete' = TRUE
  /\ rpc' = "done"
  /\ UNCHANGED <<fpos, chunk, transaction, reader_exit, total_stream_tuples>>
  /\ UNCHANGED <<JoinVars, SetupVars, stream_buffer>>

(***************************************************************************)
(* hybridjoin_thread                                                       *)
(***************************************************************************)
\* self.join_ready.set()
JoinStart ==
  /\ jpc = "start"
  /\ join_ready' = TRUE
  /\ processed' = 0
  /\ jpc' = "loop"
  /\ UNCHANGED <<stream_tuple, insert_batch, total_joined_tuples, total_loaded_tuples,
                 total_skipped, fact_sales, flush_log>>
  /\ UNCHANGED <<ReaderVars, SetupVars, stream_buffer>>

\* while self.running:
JoinLoop ==
  /\ jpc = "loop"
  /\ jpc' = IF running THEN "get" ELSE "final"
  /\ UNCHANGED <<stream_tuple, processed, insert_batch, total_joined_tuples,
                 total_loaded_tuples, total_skipped, fact_sales, flush_log, join_ready>>
  /\ UNCHANGED <<ReaderVars, SetupVars, stream_buffer>>

\* Mutant: the queue hands out its newest element (a LifoQueue).
JoinGet_Lifo ==
  /\ jpc = "get"
  /\ stream_buffer # <<>>
  /\ stream_tuple' = stream_buffer[Len(stream_buffer)]
  /\ stream_buffer' = SubSeq(stream_buffer, 1, Len(stream_buffer) - 1)
  /\ processed' = processed + 1
  /\ jpc' = "join"
  /\ UNCHANGED <<insert_batch, total_joined_tuples, total_loaded_tuples, total_skipped,
                 fact_sales, flush_log, join_ready>>
  /\ UNCHANGED <<ReaderVars, SetupVars>>

\* Mutant: the join thread, too, counts the tuple it pops as read.
JoinGet_CountsRead ==
  /\ jpc = "get"
  /\ stream_buffer # <<>>
  /\ stream_tuple' = Head(stream_buffer)
  /\ stream_buffer' = Tail(stream_buffer)
  /\ processed' = processed + 1
  /\ total_stream_tuples' = total_stream_tuples + 1
  /\ jpc' = "join"
  /\ UNCHANGED <<insert_batch, total_joined_tuples, total_loaded_tuples, total_skipped,
                 fact_sales, flush_log, join_ready>>
  /\ UNCHANGED <<rpc, fpos, chunk, transaction, reader_exit, stream_complete, SetupVars>>

\* self.stream_buffer.get(timeout=0.5) returns the head of the queue.
JoinGet ==
  /\ jpc = "get"
  /\ stream_buffer # <<>>
  /\ stream_tuple' = Head(stream_buffer)
  /\ stream_buffer' = Tail(stream_buffer)
  /\ processed' = processed + 1
  /\ jpc' = "join"
  /\ UNCHANGED <<insert_batch, total_joined_tuples, total_loaded_tuples, total_skipped,
                 fact_sales, flush_log, join_ready>>
  /\ UNCHANGED <<ReaderVars, SetupVars>>

\* Mutant: get() has no timeout, so it never raises queue.Empty.
JoinTimeout_BlockingGet ==
  /\ jpc = "get"
  /\ FALSE
  /\ UNCHANGED vars

\* self.stream_buffer.get(timeout=0.5) raises queue.Empty.
JoinTimeout ==
  /\ jpc = "get"
  /\ stream_buffer = <<>>
  /\ jpc' = "empty"
  /\ UNCHANGED <<stream_tuple, processed, insert_batch, total_joined_tuples,
                 total_loaded_tuples, total_skipped, fact_sales, flush_log, join_ready>>
  /\ UNCHANGED <<ReaderVars, SetupVars, stream_buffer>>

\* Mutant: a skipped tuple ends the loop (break for continue).
JoinTuple_BreakOnSkip ==
  /\ jpc = "join"
  /\ IF Joins(stream_tuple)
     THEN /\ insert_batch' = Append(insert_batch, JoinedValues(stream_tuple))
          /\ total_joined_tuples' = total_joined_tuples + 1
          /\ jpc' = "batch_check"
          /\ UNCHANGED total_skipped
     ELSE /\ total_skipped' = total_skipped + 1
          /\ jpc' = "final"
          /\ UNCHANGED <<insert_batch, total_joined_tuples>>
  /\ UNCHANGED <<stream_tuple, processed, total_loaded_tuples, fact_sales, flush_log, join_ready>>
  /\ UNCHANGED <<ReaderVars, SetupVars, stream_buffer>>

\* Mutant: the customer lookup removes the entry it finds (pop for get).
JoinTuple_PopsCustomer ==
  /\ jpc = "join"
  /\ IF Joins(stream_tuple)
     THEN /\ insert_batch' = Append(insert_batch, JoinedValues(stream_tuple))
          /\ total_joined_tuples' = total_joined_tuples + 1
          /\ jpc' = "batch_check"
          /\ UNCHANGED total_skipped
     ELSE /\ total_skipped' = total_skipped + 1
          /\ jpc' = "loop"
          /\ UNCHANGED <<insert_batch, total_joined_tuples>>
  /\ customer_master' = customer_master \ {stream_tuple.customer_id}
  /\ UNCHANGED <<stream_tuple, processed, total_loaded_tuples, fact_sales, flush_log, join_ready>>
  /\ UNCHANGED <<feed, batch_size, product_master, valid_dates, cpc, running>>
  /\ UNCHANGED <<ReaderVars, stream_buffer>>

\* The lookups, the date conversion and the append of the joined values.
JoinTuple ==
  /\ jpc = "join"
  /\ IF Joins(stream_tuple)
     THEN /\ insert_batch' = Append(insert_batch, JoinedValues(stream_tuple))
          /\ total_joined_tuples' = total_joined_tuples + 1
          /\ jpc' = "batch_check"
          /\ UNCHANGED total_skipped
     ELSE /\ total_skipped' = total_skipped + 1
          /\ jpc' = "loop"
          /\ UNCHANGED <<insert_batch, total_joined_tuples>>
  /\ UNCHANGED <<stream_tuple, processed, total_loaded_tuples, fact_sales, flush_log, join_ready>>
  /\ UNCHANGED <<ReaderVars, SetupVars, stream_buffer>>

\* Mutant: > for >=.
BatchFull_Greater == Len(insert_batch) > batch_size

\* if len(self.insert_batch) >= self.batch_size: self.flush_batch()
BatchFull == Len(insert_batch) >= batch_size

JoinBatchCheck ==
  /\ jpc = "batch_check"
  /\ IF BatchFull
     THEN \E outcome \in FlushOutcomes : flush_batch(outcome)
     ELSE UNCHANGED <<insert_batch, total_loaded_tuples, fact_sales, flush_log>>
  /\ jpc' = "loop"
  /\ UNCHANGED <<stream_tuple, processed, total_joined_tuples, total_skipped, join_ready>>
  /\ UNCHANGED <<ReaderVars, SetupVars, stream_buffer>>

\* Mutant: the drain starts on any timeout, without testing stream_complete.
JoinEmpty_NoCompleteTest ==
  /\ jpc = "empty"
  /\ jpc' = "drain_flush"
  /\ UNCHANGED <<stream_tuple, processed, insert_batch, total_joined_tuples,
                 total_loaded_tuples, total_skipped, fact_sales, flush_log, join_ready>>
  /\ UNCHANGED <<ReaderVars, SetupVars, stream_buffer>>

\* except queue.Empty: if self.stream_complete:
JoinEmpty ==
  /\ jpc = "empty"
  /\ jpc' = IF stream_complete THEN "drain_flush" ELSE "loop"
  /\ UNCHANGED <<stream_tuple, processed, insert_batch, total_joined_tuples,
                 total_loaded_tuples, total_skipped, fact_sales, flush_log, join_ready>>
  /\ UNCHANGED <<ReaderVars, SetupVars, stream_buffer>>

\* if self.insert_batch: self.flush_batch()
JoinDrainFlush ==
  /\ jpc = "drain_flush"
  /\ IF insert_batch # <<>>
     THEN \E outcome \in FlushOutcomes : flush_batch(outcome)
     ELSE UNCHANGED <<insert_batch, total_loaded_tuples, fact_sales, flush_log>>
  /\ jpc' = "drain_check"
  /\ UNCHANGED <<stream_tuple, processed, total_joined_tuples, total_skipped, join_ready>>
  /\ UNCHANGED <<ReaderVars, SetupVars, stream_buffer>>

\* Mutant: the break is taken without testing that the queue is empty.
JoinDrainCheck_NoEmptyTest ==
  /\ jpc = "drain_check"
  /\ jpc' = "final"
  /\ UNCHANGED <<stream_tuple, processed, insert_batch, total_joined_tuples,
                 total_loaded_tuples, total_skipped, fact_sales, flush_log, join_ready>>
  /\ UNCHANGED <<ReaderVars, SetupVars, stream_buffer>>

\* if self.stream_buffer.empty(): break
JoinDrainCheck ==
  /\ jpc = "drain_check"
  /\ jpc' = IF stream_buffer = <<>> THEN "final" ELSE "loop"
  /\ UNCHANGED <<stream_tuple, processed, insert_batch, total_joined_tuples,
                 total_loaded_tuples, total_skipped, fact_sales, flush_log, join_ready>>
  /\ UNCHANGED <<ReaderVars, SetupVars, stream_buffer>>

\* Mutant: no flush after the loop.
JoinFinal_NoFlush ==
  /\ jpc = "final"
  /\ UNCHANGED <<insert_batch, total_loaded_tuples, fact_sales, flush_log>>
  /\ jpc' = "done"
  /\ UNCHANGED <<stream_tuple, processed, total_joined_tuples, total_skipped, join_ready>>
  /\ UNCHANGED <<ReaderVars, SetupVars, stream_buffer>>

\* Final flush: if self.insert_batch: self.flush_batch()
JoinFinal ==
  /\ jpc = "final"
  /\ IF insert_batch # <<>>
     THEN \E outcome \in FlushOutcomes : flush_batch(outcome)
     ELSE UNCHANGED <<insert_batch, total_loaded_tuples, fact_sales, flush_log>>
  /\ jpc' = "done"
  /\ UNCHANGED <<stream_tuple, processed, total_joined_tuples, total_skipped, join_ready>>
  /\ UNCHANGED <<ReaderVars, SetupVars, stream_buffer>>

(***************************************************************************)
(* run                                                                     *)
(***************************************************************************)
ThreadVars ==
  <<rpc, jpc, fpos, chunk, transaction, stream_tuple, processed, reader_exit, stream_buffer,
    insert_batch, total_stream_tuples, total_joined_tuples, total_loaded_tuples, total_skipped,
    stream_complete, join_ready, flush_log>>

\* connect_to_database: True, or False (an Error, or a connection that is not up).
Connect ==
  /\ cpc = "connect"
  /\ cpc' \in {"truncate", "failed"}
  /\ UNCHANGED <<feed, batch_size, customer_master, product_master, valid_dates, running,
                 fact_sales, ThreadVars>>

\* truncate_fact_table: an exception, an empty table, a refusal, or the TRUNCATE.
TruncateFactTable ==
  /\ cpc = "truncate"
  /\ \/ cpc' = "failed" /\ UNCHANGED fact_sales
     \/ fact_sales = <<>> /\ cpc' = "load" /\ UNCHANGED fact_sales
     \/ fact_sales # <<>> /\ cpc' = "failed" /\ UNCHANGED fact_sales
     \/ fact_sales # <<>> /\ cpc' = "load" /\ fact_sales' = <<>>
  /\ UNCHANGED <<feed, batch_size, customer_master, product_master, valid_dates, running,
                 ThreadVars>>

\* Mutant: run() ignores the False that load_master_data returns.
LoadMasterData_ResultIgnored ==
  /\ cpc = "load"
  /\ \/ cpc' = "crashed" /\ UNCHANGED <<customer_master, valid_dates, product_master>>
     \/ /\ cpc' = "crashed"
        /\ customer_master' = DimCustomer
        /\ UNCHANGED <<valid_dates, product_master>>
     \/ /\ cpc' = "start_join"
        /\ customer_master' = DimCustomer
        /\ valid_dates' = DimDate
        /\ UNCHANGED product_master
     \/ /\ cpc' = "start_join"
        /\ customer_master' = DimCustomer
        /\ valid_dates' = DimDate
        /\ product_master' = ProductCsv
  /\ UNCHANGED <<feed, batch_size, running, fact_sales, ThreadVars>>

\* load_master_data: a query raises (run() does not catch it), the product CSV
\* cannot be read (False), or all three are loaded (True).
LoadMasterData ==
  /\ cpc = "load"
  /\ \/ cpc' = "crashed" /\ UNCHANGED <<customer_master, valid_dates, product_master>>
     \/ /\ cpc' = "crashed"
        /\ customer_master' = DimCustomer
        /\ UNCHANGED <<valid_dates, product_master>>
     \/ /\ cpc' = "failed"
        /\ customer_master' = DimCustomer
        /\ valid_dates' = DimDate
        /\ UNCHANGED product_master
     \/ /\ cpc' = "start_join"
        /\ customer_master' = DimCustomer
        /\ valid_dates' = DimDate
        /\ product_master' = ProductCsv
  /\ UNCHANGED <<feed, batch_size, running, fact_sales, ThreadVars>>

\* thread2.start()
StartJoinThread ==
  /\ cpc = "start_join"
  /\ jpc' = "start"
  /\ cpc' = "start_reader"
  /\ UNCHANGED <<feed, batch_size, customer_master, product_master, valid_dates, running,
                 fact_sales, rpc, fpos, chunk, transaction, stream_tuple, processed, reader_exit,
                 stream_buffer, insert_batch, total_stream_tuples, total_joined_tuples,
                 total_loaded_tuples, total_skipped, stream_complete, join_ready, flush_log>>

\* time.sleep(0.1); thread1.start()
StartReaderThread ==
  /\ cpc = "start_reader"
  /\ rpc' = "wait"
  /\ cpc' = "join"
  /\ UNCHANGED <<feed, batch_size, customer_master, product_master, valid_dates, running,
                 fact_sales, jpc, fpos, chunk, transaction, stream_tuple, processed, reader_exit,
                 stream_buffer, insert_batch, total_stream_tuples, total_joined_tuples,
                 total_loaded_tuples, total_skipped, stream_complete, join_ready, flush_log>>

\* except KeyboardInterrupt: self.running = False
Interrupt ==
  /\ cpc = "join"
  /\ running' = FALSE
  /\ cpc' = "join_interrupted"
  /\ UNCHANGED <<feed, batch_size, customer_master, product_master, valid_dates, fact_sales,
                 ThreadVars>>

\* thread1.join(); thread2.join() return; the connection is closed; return True
JoinThreads ==
  /\ cpc \in {"join", "join_interrupted"}
  /\ rpc = "done"
  /\ jpc = "done"
  /\ cpc' = "done"
  /\ UNCHANGED <<feed, batch_size, customer_master, product_master, valid_dates, running,
                 fact_sales, ThreadVars>>

ReaderNext ==
  \/ ReaderWait \/ ReaderOpen \/ ReaderNextChunk \/ ReaderChunkCheck
  \/ ReaderRow \/ ReaderPut \/ ReaderCount \/ ReaderFinally

JoinNext ==
  \/ JoinStart \/ JoinLoop \/ JoinGet \/ JoinTimeout \/ JoinTuple \/ JoinBatchCheck
  \/ JoinEmpty \/ JoinDrainFlush \/ JoinDrainCheck \/ JoinFinal

\* The steps run() takes by itself; Interrupt is the user's.
RunSteps ==
  \/ Connect \/ TruncateFactTable \/ LoadMasterData \/ StartJoinThread \/ StartReaderThread
  \/ JoinThreads

Next == ReaderNext \/ JoinNext \/ RunSteps \/ Interrupt

Spec == Init /\ [][Next]_vars

\* Both threads are scheduled again and again, and run() goes on when it can.
FairSpec == Spec /\ WF_vars(ReaderNext) /\ WF_vars(JoinNext) /\ WF_vars(RunSteps)

(***************************************************************************)
(* flush_batch called directly, on an object whose batch, loaded counter   *)
(* and table are in any state a run can leave them in.  Every call of      *)
(* flush_batch in hybridjoin_thread is guarded by a non-empty batch; here  *)
(* the method is also called with an empty one.                            *)
(***************************************************************************)
\* Joined rows a batch can hold.
SampleRows ==
  { [order_id |-> i, customer_id |-> "C1", product_id |-> "P1", date_id |-> 20240105,
     store_id |-> "S1", supplier_id |-> "U1", quantity |-> 2, unit_price |-> 250,
     total_amount |-> 500] : i \in 1..2 }

FlushInit ==
  /\ feed = <<>>
  /\ batch_size = MaxBatch
  /\ stream_buffer = <<>>
  /\ insert_batch \in UNION { [1..n -> SampleRows] : n \in 0..MaxBatch }
  /\ total_stream_tuples = 0
  /\ total_joined_tuples = 0
  /\ total_loaded_tuples \in 0..MaxFeed
  /\ total_skipped = 0
  /\ stream_complete = FALSE
  /\ running = TRUE
  /\ join_ready = FALSE
  /\ customer_master = DimCustomer
  /\ product_master = ProductCsv
  /\ valid_dates = DimDate
  /\ fact_sales \in {<<>>, <<OldFact>>}
  /\ cpc = "direct_call"
  /\ rpc = "not_started"
  /\ jpc = "not_started"
  /\ fpos = 0
  /\ chunk = <<>>
  /\ transaction = NoTuple
  /\ stream_tuple = NoTuple
  /\ processed = 0
  /\ flush_log = <<>>
  /\ reader_exit = "none"

FlushCall ==
  /\ cpc = "direct_call"
  /\ Len(flush_log) < MaxFlushCalls
  /\ \E outcome \in FlushOutcomes : flush_batch(outcome)
  /\ UNCHANGED <<feed, batch_size, stream_buffer, total_stream_tuples, total_joined_tuples,
                 total_skipped, stream_complete, running, join_ready, customer_master,
                 product_master, valid_dates, cpc, rpc, jpc, fpos, chunk, transaction,
                 stream_tuple, processed, reader_exit>>

FlushSpec == FlushInit /\ [][FlushCall]_vars

(***************************************************************************)
(* Vocabulary of the properties.                                           *)
(***************************************************************************)
\* Both threads have been started (the master data is loaded).
Streaming == jpc # "not_started"

BothTerminated == rpc = "done" /\ jpc = "done"

\* No KeyboardInterrupt so far: running is only ever set to False.
NoStop == running

\* A row of the feed that has an integer quantity and all three keys.
RowQualifies(row) ==
  /\ row.quantity.isint
  /\ row.Customer_ID \in DimCustomer
  /\ row.Product_ID \in DOMAIN ProductCsv
  /\ StrptimeOk(row.date)
  /\ DateId(row.date) \in DimDate

\* The order ids of a sequence of joined rows; an order id is the position of
\* its row in the feed.
OrderIds(rows) == [i \in 1..Len(rows) |-> rows[i].order_id]

StrictlyIncreasing(ids) == \A i, j \in 1..Len(ids) : i < j => ids[i] < ids[j]

(***************************************************************************)
(* C1: when no stop was requested and both threads have terminated, the    *)
(* number of tuples read equals the number joined plus the number skipped, *)
(* whatever ended the reader.                                              *)
(***************************************************************************)
C1_ReadIsJoinedPlusSkipped ==
  (BothTerminated /\ NoStop) =>
     total_stream_tuples = total_joined_tuples + total_skipped

\* A run ended by a read error after two rows, one joined and one skipped.
C1_Witness ==
  /\ BothTerminated /\ NoStop
  /\ reader_exit = "read_error"
  /\ total_stream_tuples = 2 /\ total_joined_tuples = 1 /\ total_skipped = 1

(***************************************************************************)
(* C4: insert_batch never holds more than batch_size rows, and it holds    *)
(* batch_size rows only at the test that flushes it, so no row is appended *)
(* to a batch that is already full.                                        *)
(***************************************************************************)
C4_BatchWithinThreshold ==
  /\ batch_size >= 1
  /\ Len(insert_batch) <= batch_size
  /\ (Len(insert_batch) = batch_size => jpc = "batch_check")

\* A batch of two rows has reached a batch_size of two.
C4_Witness == batch_size = 2 /\ Len(insert_batch) = 2 /\ jpc = "batch_check"

(***************************************************************************)
(* C5: the rows committed to fact_sales by the run are rows of the feed,   *)
(* in the order of the feed.                                               *)
(***************************************************************************)
C5_SinkInFeedOrder ==
  Streaming =>
    /\ StrictlyIncreasing(OrderIds(fact_sales))
    /\ \A i \in 1..Len(fact_sales) :
         /\ fact_sales[i].order_id \in 1..Len(feed)
         /\ fact_sales[i].customer_id = feed[fact_sales[i].order_id].Customer_ID
         /\ fact_sales[i].product_id = feed[fact_sales[i].order_id].Product_ID

\* Two batches were committed, while a later row was still in the queue.
C5_Witness ==
  /\ Len(fact_sales) = 2
  /\ Len(flush_log) = 2
  /\ stream_buffer # <<>>

(***************************************************************************)
(* More vocabulary.                                                        *)
(***************************************************************************)
LastCall(log) == log[Len(log)]

\* A step that is a call of flush_batch.
FlushCalled == flush_log' # flush_log

\* A call whose bulk insert or whose commit raised.
InsertOrCommitRaised(call) == call.calls \in {DbCalls("insert_error"), DbCalls("commit_error")}

\* No call of flush_batch so far failed: each returned the size of its batch.
NoFlushFailed == \A i \in 1..Len(flush_log) : flush_log[i].ret = Len(flush_log[i].batch)

IdSet(rows) == {rows[i].order_id : i \in 1..Len(rows)}

\* The feed of the three-row scenario: a valid row, an unknown customer and
\* a malformed date.
ScenarioFeed ==
  WithOrder(<<[Customer_ID |-> "C1", Product_ID |-> "P1", quantity |-> IntCell(2), date |-> <<2024, 1, 5>>],
              [Customer_ID |-> "C9", Product_ID |-> "P1", quantity |-> IntCell(1), date |-> <<2024, 1, 5>>],
              [Customer_ID |-> "C1", Product_ID |-> "P1", quantity |-> IntCell(3), date |-> BadDate]>>)

(***************************************************************************)
(* C2: with no stop, no failed flush and a feed that is read without an    *)
(* I/O error, every row of the feed that has all three keys ends up in     *)
(* fact_sales exactly once, with its product's store, supplier and price   *)
(* and total_amount = quantity * unit price.                               *)
(***************************************************************************)
C2_EveryValidRowPersistedOnce ==
  (BothTerminated /\ NoStop /\ NoFlushFailed /\ reader_exit \notin {"open_error", "read_error"}) =>
     \A i \in 1..Len(feed) :
        RowQualifies(feed[i]) =>
          /\ Cardinality({k \in 1..Len(fact_sales) : fact_sales[k].order_id = i}) = 1
          /\ \A k \in 1..Len(fact_sales) :
               fact_sales[k].order_id = i =>
                 /\ fact_sales[k].store_id = ProductCsv[feed[i].Product_ID].store_id
                 /\ fact_sales[k].supplier_id = ProductCsv[feed[i].Product_ID].supplier_id
                 /\ fact_sales[k].unit_price = ProductCsv[feed[i].Product_ID].price
                 /\ fact_sales[k].total_amount =
                      feed[i].quantity.val * ProductCsv[feed[i].Product_ID].price

\* Parts of C3.
C3_PoppedCounted ==
  processed = total_joined_tuples + total_skipped + (IF jpc = "join" THEN 1 ELSE 0)

C3_OnlyQualifyingRowsKept ==
  Streaming =>
    \A id \in IdSet(insert_batch) \cup IdSet(fact_sales) :
       id \in 1..Len(feed) /\ RowQualifies(feed[id])

C3_ClassifyStep ==
  (jpc = "join" /\ jpc' # "join") =>
     /\ \/ total_joined_tuples' = total_joined_tuples + 1 /\ total_skipped' = total_skipped
        \/ total_joined_tuples' = total_joined_tuples /\ total_skipped' = total_skipped + 1
     /\ ~RowQualifies(feed[stream_tuple.order_id]) =>
          total_skipped' = total_skipped + 1 /\ insert_batch' = insert_batch

\* The scenario's feed is read to its end (no I/O error ends the reader).
C3_Scenario ==
  (feed = ScenarioFeed /\ BothTerminated /\ NoStop /\ reader_exit = "exhausted") =>
     /\ total_stream_tuples = 3 /\ total_joined_tuples = 1 /\ total_skipped = 2
     /\ IdSet(fact_sales) \subseteq {1}

(***************************************************************************)
(* C3: every tuple the join thread pops is classified exactly once, as     *)
(* joined or as skipped; a tuple that misses a lookup or whose date does   *)
(* not parse or is not a valid date is skipped and is never in the batch   *)
(* or in fact_sales; the three-row scenario ends with read 3, joined 1,    *)
(* skipped 2.                                                              *)
(***************************************************************************)
C3_EachPoppedRecordClassifiedOnce ==
  /\ [](C3_PoppedCounted /\ C3_OnlyQualifyingRowsKept /\ C3_Scenario)
  /\ [][C3_ClassifyStep]_vars

\* The scenario has run to its end and its one joined row is committed.
C3_Witness ==
  /\ feed = ScenarioFeed /\ BothTerminated /\ NoStop /\ reader_exit = "exhausted"
  /\ total_stream_tuples = 3 /\ total_joined_tuples = 1 /\ total_skipped = 2
  /\ IdSet(fact_sales) = {1}

\* Parts of C6.
C6_FailedFlushStep ==
  (FlushCalled /\ InsertOrCommitRaised(LastCall(flush_log'))) =>
     /\ total_loaded_tuples' = total_loaded_tuples
     /\ fact_sales' = fact_sales
     /\ insert_batch' = <<>>
     /\ LastCall(flush_log').ret = 0
     /\ jpc = "batch_check" => jpc' = "loop"
     /\ jpc = "drain_flush" => jpc' = "drain_check"

C6_NeverResubmitted ==
  \A i \in 1..Len(flush_log) :
     InsertOrCommitRaised(flush_log[i]) =>
       /\ IdSet(flush_log[i].batch) \cap IdSet(insert_batch) = {}
       /\ \A j \in 1..Len(flush_log) :
            j # i => IdSet(flush_log[i].batch) \cap IdSet(flush_log[j].batch) = {}

(***************************************************************************)
(* C6: a flush whose bulk insert or commit raises leaves loaded and        *)
(* fact_sales as they were and the batch empty, the join thread goes on,   *)
(* and no row of a failed batch is handed to the sink again or is back in  *)
(* the batch.                                                              *)
(***************************************************************************)
C6_FailedFlushDropsBatch == [][C6_FailedFlushStep]_vars /\ []C6_NeverResubmitted

\* The first flush failed at the bulk insert, and a later one succeeded.
C6_Witness ==
  /\ Len(flush_log) = 2
  /\ flush_log[1].calls = DbCalls("insert_error")
  /\ flush_log[2].ret = Len(flush_log[2].batch)
  /\ total_loaded_tuples = Len(flush_log[2].batch)
  /\ total_loaded_tuples > 0

(***************************************************************************)
(* C7: with no stop and no failed flush, every flush but the last writes   *)
(* exactly batch_size rows, so N joined rows make ceil(N / batch_size)     *)
(* flushes and loaded = N.                                                 *)
(***************************************************************************)
C7_OnlyLastFlushShort ==
  (NoStop /\ NoFlushFailed) =>
     /\ \A i \in 1..(Len(flush_log) - 1) : Len(flush_log[i].batch) = batch_size
     /\ jpc = "done" =>
          /\ Len(flush_log) = (total_joined_tuples + batch_size - 1) \div batch_size
          /\ total_loaded_tuples = total_joined_tuples

\* Parts of C8.
C8_EmptyFlushStep ==
  (FlushCalled /\ insert_batch = <<>>) =>
     /\ LastCall(flush_log').ret = 0
     /\ LastCall(flush_log').calls = <<>>
     /\ total_loaded_tuples' = total_loaded_tuples
     /\ insert_batch' = insert_batch
     /\ fact_sales' = fact_sales

(***************************************************************************)
(* C8: flush_batch called with an empty batch returns 0, makes no call on  *)
(* the connection and leaves loaded, the batch and fact_sales unchanged.   *)
(***************************************************************************)
C8_EmptyFlushIsNoOp == [][C8_EmptyFlushStep]_vars

\* flush_batch was called with an empty batch after rows had been loaded.
C8_Witness ==
  /\ flush_log # <<>>
  /\ LastCall(flush_log).batch = <<>>
  /\ total_loaded_tuples > 0
  /\ fact_sales # <<>>

(***************************************************************************)
(* C9: once the stop is requested, both threads eventually terminate.      *)
(***************************************************************************)
C9_StopTerminates == (~running) ~> BothTerminated

(***************************************************************************)
(* C10: a row whose quantity is not an integer is skipped alone: when the  *)
(* reader has ended without a stop or an I/O error, every row of the feed  *)
(* with an integer quantity was counted as read.                           *)
(***************************************************************************)
C10_MalformedRowSkippedAlone ==
  (rpc = "done" /\ NoStop /\ reader_exit \notin {"open_error", "read_error"}) =>
     total_stream_tuples = Cardinality({i \in 1..Len(feed) : feed[i].quantity.isint})

(***************************************************************************)
(* C11: while join_ready is not set the reader has read nothing: the queue *)
(* is empty, the read counter is 0 and no chunk was fetched.               *)
(***************************************************************************)
C11_NothingReadBeforeReady ==
  ~join_ready =>
     /\ stream_buffer = <<>>
     /\ total_stream_tuples = 0
     /\ fpos = 0
     /\ rpc \in {"not_started", "wait"}

\* The reader thread runs and waits: the join thread has not signalled yet.
C11_Witness == rpc = "wait" /\ ~join_ready /\ feed # <<>>

\* Parts of C12.
C12_Conservation ==
  /\ Len(stream_buffer) <= QueueMaxSize
  /\ total_stream_tuples + (IF rpc = "count" THEN 1 ELSE 0) = processed + Len(stream_buffer)
  /\ StrictlyIncreasing(OrderIds(stream_buffer))
  /\ (rpc = "put" /\ Len(stream_buffer) = QueueMaxSize) => ~ENABLED ReaderNext

C12_QueueStep ==
  stream_buffer' # stream_buffer =>
     \/ /\ rpc = "put"
        /\ Len(stream_buffer) < QueueMaxSize
        /\ stream_buffer' = Append(stream_buffer, transaction)
     \/ /\ stream_buffer # <<>>
        /\ stream_buffer' = Tail(stream_buffer)
        /\ stream_tuple' = Head(stream_buffer)
        /\ processed' = processed + 1

(***************************************************************************)
(* C12: the queue never holds more than its capacity; a put on a full      *)
(* queue blocks the reader; the queue changes only by a put at its tail or *)
(* a get of its head, so every tuple put was popped once or is still in    *)
(* the queue.                                                              *)
(***************************************************************************)
C12_BoundedQueueLosesNothing == []C12_Conservation /\ [][C12_QueueStep]_vars

\* The reader is blocked on a full queue.
C12_Witness == rpc = "put" /\ Len(stream_buffer) = QueueMaxSize /\ running

(***************************************************************************)
(* C13: once both threads are started, and unless a stop is requested,     *)
(* both eventually terminate, whatever the feed, the speeds of the two     *)
(* threads and the way the reader ends (feed exhausted, open error, read   *)
(* error).                                                                 *)
(***************************************************************************)
C13_BothTerminate == Streaming ~> (BothTerminated \/ ~running)

\* A run whose feed could not be opened has ended, both threads terminated.
C13_Witness ==
  /\ BothTerminated /\ NoStop
  /\ reader_exit = "open_error"
  /\ feed # <<>>
  /\ cpc = "done"

\* run() has ended without starting the threads: it returned False, or an
\* exception of load_master_data left it.
SetupFailed == cpc \in {"failed", "crashed"}

\* Parts of C14.
C14_NothingStarted ==
  SetupFailed =>
     /\ rpc = "not_started" /\ jpc = "not_started"
     /\ total_stream_tuples = 0 /\ total_joined_tuples = 0
     /\ total_loaded_tuples = 0 /\ total_skipped = 0
     /\ stream_buffer = <<>> /\ insert_batch = <<>> /\ flush_log = <<>>
     /\ fpos = 0

C14_StartedOnlyAfterSetup ==
  (rpc # "not_started" \/ jpc # "not_started") =>
     /\ ~SetupFailed
     /\ customer_master = DimCustomer
     /\ valid_dates = DimDate
     /\ product_master = ProductCsv

(***************************************************************************)
(* C14: when a setup step fails (connection, clearing of fact_sales, load  *)
(* of the master data) the run ends as failed, no thread was or is ever    *)
(* started, and the four counters are 0; the threads run only after every  *)
(* setup step has succeeded.                                               *)
(***************************************************************************)
C14_FailedSetupStartsNothing ==
  /\ [](C14_NothingStarted /\ C14_StartedOnlyAfterSetup)
  /\ [][~SetupFailed]_vars

\* The product CSV could not be read after the customers were loaded.
C14_Witness == cpc = "failed" /\ customer_master = DimCustomer /\ feed # <<>>

(***************************************************************************)
(* C15: fact_sales is cleared only after the master data has been loaded,  *)
(* so a run whose load fails leaves the rows that were in the table.       *)
(***************************************************************************)
C15_ClearedOnlyAfterLoad ==
  [][(fact_sales # <<>> /\ fact_sales' = <<>>) =>
       (customer_master = DimCustomer /\ valid_dates = DimDate /\ product_master = ProductCsv)]_vars

\* Parts of C16.
C16_SkipStep ==
  total_skipped' # total_skipped =>
     /\ jpc' = "loop"
     /\ cpc' = cpc /\ rpc' = rpc /\ running' = running
     /\ stream_buffer' = stream_buffer

C16_RunNotFailed == Streaming => ~SetupFailed

C16_ReturnStep ==
  (cpc \in {"join", "join_interrupted"} /\ BothTerminated) => (ENABLED JoinThreads)

(***************************************************************************)
(* C16: a tuple that is skipped stops nothing: the join thread goes back   *)
(* to the head of its loop, the reader and run() are untouched, and a run  *)
(* whose threads were started never ends as failed: when both threads have *)
(* terminated run() returns True, whatever the number of skipped tuples.   *)
(***************************************************************************)
C16_SkipsNeverFailRun == [](C16_RunNotFailed /\ C16_ReturnStep) /\ [][C16_SkipStep]_vars

\* run() has returned True after a run that skipped two tuples.
C16_Witness == cpc = "done" /\ total_skipped = 2 /\ total_joined_tuples = 1 /\ NoStop

(***************************************************************************)
(* C17: without a stop the join thread has left its loop only when         *)
(* stream_complete is true and the queue is empty: the reader is done and  *)
(* every tuple it put was popped and classified.                           *)
(***************************************************************************)
C17_TerminatesOnlyWhenDrained ==
  (jpc \in {"final", "done"} /\ NoStop) =>
     /\ stream_complete
     /\ stream_buffer = <<>>
     /\ rpc = "done"
     /\ processed = total_stream_tuples
     /\ processed = total_joined_tuples + total_skipped

\* The join thread timed out on the empty queue while the reader was still
\* putting (its first flush is a short batch), and still popped every tuple.
C17_Witness ==
  /\ jpc = "done" /\ NoStop
  /\ batch_size = 2
  /\ Len(flush_log) = 2
  /\ Len(flush_log[1].batch) = 1
  /\ processed = total_stream_tuples

\* Parts of C18.
C18_FlagIffReaderDone == stream_complete <=> rpc = "done"

C18_FlagStep ==
  /\ stream_complete' # stream_complete => (rpc = "finally" /\ rpc' = "done")
  /\ stream_complete =>
       /\ stream_complete'
       /\ Len(stream_buffer') <= Len(stream_buffer)
       /\ total_stream_tuples' = total_stream_tuples

(***************************************************************************)
(* C18: the reader is done exactly when stream_complete is true, whatever  *)
(* ended it; only the reader's finally changes the flag; once it is true   *)
(* it stays true and nothing more is put or counted.                       *)
(***************************************************************************)
C18_CompletionFlagSetOnEveryExit == []C18_FlagIffReaderDone /\ [][C18_FlagStep]_vars

\* The reader observed the stop and ended with the flag set.
C18_Witness == rpc = "done" /\ stream_complete /\ reader_exit = "stopped" /\ ~running

\* Parts of C19.
RECURSIVE FlushedRows(_)
FlushedRows(log) == IF log = <<>> THEN 0 ELSE Len(Head(log).batch) + FlushedRows(Tail(log))

C19_EmptyWhenDone ==
  jpc = "done" =>
     /\ insert_batch = <<>>
     /\ FlushedRows(flush_log) = total_joined_tuples

C19_NothingAfterDone ==
  jpc = "done" => (jpc' = "done" /\ insert_batch' = insert_batch /\ flush_log' = flush_log)

(***************************************************************************)
(* C19: when the join thread has terminated, by drain or by stop, the      *)
(* batch is empty and every joined row was in a batch given to             *)
(* flush_batch; afterwards nothing is appended or flushed.                 *)
(***************************************************************************)
C19_BatchEmptyAfterTermination == []C19_EmptyWhenDone /\ [][C19_NothingAfterDone]_vars

\* After a stop the final flush was given a batch shorter than batch_size.
C19_Witness ==
  /\ jpc = "done" /\ ~running
  /\ flush_log # <<>>
  /\ Len(LastCall(flush_log).batch) < batch_size
  /\ stream_buffer # <<>>

(***************************************************************************)
(* C20: every call of flush_batch with a non-empty batch either commits    *)
(* the whole batch, adds its size to loaded and returns that size, or      *)
(* commits nothing, leaves loaded unchanged and returns 0, whichever call  *)
(* on the connection raises.                                               *)
(***************************************************************************)
C20_FlushAllOrNothing ==
  [][(FlushCalled /\ insert_batch # <<>>) =>
       \/ /\ fact_sales' = fact_sales \o insert_batch
          /\ total_loaded_tuples' = total_loaded_tuples + Len(insert_batch)
          /\ LastCall(flush_log').ret = Len(insert_batch)
       \/ /\ fact_sales' = fact_sales
          /\ total_loaded_tuples' = total_loaded_tuples
          /\ LastCall(flush_log').ret = 0]_vars

\* Parts of C21.
C21_Monotone ==
  /\ total_stream_tuples' >= total_stream_tuples
  /\ total_joined_tuples' >= total_joined_tuples
  /\ total_skipped' >= total_skipped
  /\ total_loaded_tuples' >= total_loaded_tuples

\* read is written by the reader's increment alone, a step that leaves
\* every variable of the join thread as it was.
C21_ReadByReader ==
  total_stream_tuples' # total_stream_tuples =>
     /\ rpc = "count"
     /\ total_stream_tuples' = total_stream_tuples + 1
     /\ UNCHANGED <<JoinVars, jpc>>

\* joined and skipped are written by the join step alone, loaded by a call
\* of flush_batch made by the join thread alone; these steps leave every
\* variable of the reader as it was.
C21_OthersByJoin ==
  /\ (total_joined_tuples' # total_joined_tuples \/ total_skipped' # total_skipped) =>
        (jpc = "join" /\ UNCHANGED ReaderVars)
  /\ total_loaded_tuples' # total_loaded_tuples =>
        /\ FlushCalled
        /\ jpc \in {"batch_check", "drain_flush", "final"}
        /\ UNCHANGED ReaderVars

\* A step of one stage changes no counter of the other.
C21_NoCrossWrite ==
  /\ rpc' # rpc =>
       UNCHANGED <<total_joined_tuples, total_skipped, total_loaded_tuples>>
  /\ jpc' # jpc => UNCHANGED total_stream_tuples

(***************************************************************************)
(* C21: none of read, joined, skipped and loaded ever decreases; read is   *)
(* changed only by the reader thread, joined, skipped and loaded only by   *)
(* the join thread (loaded inside a call of flush_batch), and no step of   *)
(* one thread changes a counter of the other.                              *)
(***************************************************************************)
C21_CountersMonotoneSingleWriter ==
  [][C21_Monotone /\ C21_ReadByReader /\ C21_OthersByJoin /\ C21_NoCrossWrite]_vars

\* All four counters have been written, the reader is about to count again.
C21_Witness ==
  /\ total_stream_tuples > 0 /\ total_joined_tuples > 0
  /\ total_skipped > 0 /\ total_loaded_tuples > 0
  /\ rpc = "count"

\* Parts of C22.
C22_Started == rpc # "not_started" \/ jpc # "not_started"

C22_Populated ==
  C22_Started =>
     /\ customer_master = DimCustomer
     /\ product_master = ProductCsv
     /\ valid_dates = DimDate

(***************************************************************************)
(* C22: from the start of the first thread on, the customer set, the       *)
(* product map and the valid-date set hold what load_master_data put in    *)
(* them and no step changes them.                                          *)
(***************************************************************************)
C22_MasterDataReadOnly ==
  /\ []C22_Populated
  /\ [][C22_Started => UNCHANGED <<customer_master, product_master, valid_dates>>]_vars

\* Both threads are done after joining, skipping and flushing.
C22_Witness ==
  /\ BothTerminated
  /\ total_joined_tuples > 0 /\ total_skipped > 0 /\ total_loaded_tuples > 0
  /\ customer_master = DimCustomer

(***************************************************************************)
(* C23: in every reachable state joined + skipped <= read: the join thread *)
(* never classifies a tuple before the reader has counted it.              *)
(***************************************************************************)
C23_ClassifiedNeverExceedsRead ==
  total_joined_tuples + total_skipped <= total_stream_tuples

\* The rows of the batches whose call of flush_batch failed (it did not
\* return the size of its batch).
RECURSIVE FailedRows(_)
FailedRows(log) ==
  IF log = <<>> THEN 0
  ELSE (IF Head(log).ret # Len(Head(log).batch) THEN Len(Head(log).batch) ELSE 0)
       + FailedRows(Tail(log))

(***************************************************************************)
(* C24: in every reachable state joined = loaded + the rows in             *)
(* insert_batch + the rows of the batches whose flush failed, so           *)
(* loaded <= joined, and when the join thread is done and no flush failed  *)
(* loaded = joined.                                                        *)
(***************************************************************************)
C24_JoinedAccountedOnce ==
  /\ total_joined_tuples = total_loaded_tuples + Len(insert_batch) + FailedRows(flush_log)
  /\ total_loaded_tuples <= total_joined_tuples
  /\ (jpc = "done" /\ NoFlushFailed) => total_loaded_tuples = total_joined_tuples

====
